---- MODULE Spec2Model ----
(***************************************************************************)
(* State-machine model of stoix/systems/search/muzero.py: the MuZero       *)
(* learner (warmup, rollout, replay, the three losses, the pmean           *)
(* reductions and the three optimizer updates) and the pure target         *)
(* computations of its loss functions.                                     *)
(*                                                                         *)
(* Processes are the pmap devices; the vmap "batch" axis is vectorised, so *)
(* one step of a device acts on every update-batch row of that device.     *)
(* A replica is a pair <<device, batch row>>.  One environment row is      *)
(* modelled per replica (the env axis is lock-step inside every call).     *)
(***************************************************************************)
EXTENDS Integers, Sequences, FiniteSets, TLC

\* ------------------------------------------------------------------ sizes
NDevices == 2
UpdateBatchSize == 2
WarmupSteps == 2
RolloutLength == 2
Epochs == 2
NumUpdatesPerEval == 2
NumEvaluation == 2
SampleSequenceLength == 2
BufferSize == 6
NumActions == 2
ObsMod == 3
EpisodeLen == 3
MaxGradNorm == 2
MaxSalt == 1
MaxWindowLen == 4
MaxNSteps == 2
MaxUpdates == 3
MaxReturn == 2
InitMaxEpisodeReturn == 0
GammaNum == 9
GammaDen == 10

Devices == 1..NDevices
BatchRows == 1..UpdateBatchSize
Replicas == Devices \X BatchRows
ReplicasOf(d) == {r \in Replicas : r[1] = d}

\* ------------------------------------------------------- exact arithmetic
\* Network values, gradients and targets are real numbers; they are kept as
\* reduced fractions [n, d] so that a mean is a mean and equality is exact.
RECURSIVE GCD(_, _)
GCD(a, b) == IF b = 0 THEN a ELSE GCD(b, a % b)
Abs(x) == IF x < 0 THEN -x ELSE x
Rat(n, d) ==
    LET g == GCD(Abs(n), Abs(d))
        s == IF d < 0 THEN -1 ELSE 1
    IN  [n |-> (s * n) \div g, d |-> (s * d) \div g]
RInt(i) == [n |-> i, d |-> 1]
RAdd(x, y) ==
    LET g == GCD(x.d, y.d)
    IN  Rat(x.n * (y.d \div g) + y.n * (x.d \div g), (x.d \div g) * y.d)
RNeg(x) == [n |-> -x.n, d |-> x.d]
RSub(x, y) == RAdd(x, RNeg(y))
RMul(x, y) == Rat(x.n * y.n, x.d * y.d)
RDivInt(x, k) == Rat(x.n, x.d * k)
RLeq(x, y) == x.n * y.d <= y.n * x.d
RMin(x, y) == IF RLeq(x, y) THEN x ELSE y
RMax(x, y) == IF RLeq(x, y) THEN y ELSE x

\* --------------------------------------------------------------- PRNG keys
\* A key is its path in the split tree: split(key, n) yields the n children
\* of key.  Distinct paths stand for distinct key values.
RootKey == << >>
Split(k, n) == [i \in 1..n |-> Append(k, i - 1)]
RECURSIVE SumSeq(_)
SumSeq(s) == IF s = << >> THEN 0 ELSE Head(s) + SumSeq(Tail(s))
KeyBits(k, salt) == SumSeq(k) + Len(k) + salt

\* ------------------------------------------------------ parameters (MZParams)
\* MZParams(prediction_params(actor_params, critic_params),
\*          world_model_params(representation_params, dynamics_params)),
\* kept flat: a tree is a function from leaf names to leaves.  A leaf carries
\* its value, the losses whose gradients have flowed into it, and how many
\* times it has been written.
ParamNames == {"actor_params", "critic_params", "representation_params", "dynamics_params"}
PredictionNames == {"actor_params", "critic_params"}
WorldModelNames == {"representation_params", "dynamics_params"}
Losses == {"actor", "critic", "world_model"}

Leaf(v) == [val |-> v, losses |-> {}, writes |-> 0]
Restrict(tree, S) == [k \in S |-> tree[k]]
Merge(a, b) == [k \in (DOMAIN a) \cup (DOMAIN b) |-> IF k \in DOMAIN a THEN a[k] ELSE b[k]]

\* network.init(key, ...) for the four networks, packed as MZParams
FreshParams == [k \in ParamNames |-> Leaf(RInt(0))]
\* loaded_checkpoint.restore_params(): params only
RestoredParams == [k \in ParamNames |-> Leaf(RInt(1))]

\* optax.chain(clip_by_global_norm, adam).init(params): a step count and a
\* first-moment accumulator shaped like the params it owns
OptInit(tree) == [count |-> 0, mu |-> [k \in DOMAIN tree |-> [val |-> RInt(0), losses |-> {}]]]
InitOptStates(p) ==
    [actor_opt_state |-> OptInit(Restrict(p, {"actor_params"})),
     critic_opt_state |-> OptInit(Restrict(p, {"critic_params"})),
     world_model_opt_state |-> OptInit(Restrict(p, WorldModelNames))]

\* ------------------------------------------------- networks (collaborators)
\* The architectures are pluggable; each network is a deterministic function
\* of (params, input).  Quant reads one bit of a parameter value so that the
\* outputs stay in small integer ranges.
Quant(leaf) == (leaf.val.n + leaf.val.d + 1) % 2
Representation(rp, obs) == (obs + Quant(rp)) % ObsMod
Dynamics(dp, emb, action) ==
    [next_state_embedding |-> (emb + action + 1 + Quant(dp)) % ObsMod,
     reward |-> (emb * (action + 1) + Quant(dp)) % 2]
Actor(ap, emb) == (emb + Quant(ap)) % NumActions
Critic(cp, emb) == emb + Quant(cp)

root_fn(p, observation) ==
    LET observation_embedding == Representation(p["representation_params"], observation)
    IN  [prior_logits |-> Actor(p["actor_params"], observation_embedding),
         value |-> Critic(p["critic_params"], observation_embedding),
         embedding |-> observation_embedding]

recurrent_fn(p, action, state_embedding) ==
    LET out == Dynamics(p["dynamics_params"], state_embedding, action)
    IN  [reward |-> out.reward,
         discount |-> 1,
         prior_logits |-> Actor(p["actor_params"], out.next_state_embedding),
         value |-> Critic(p["critic_params"], out.next_state_embedding),
         next_state_embedding |-> out.next_state_embedding]

\* search_apply_fn(params, policy_key, root): the injected search, one
\* simulation deep; its randomness is a function of the key it is given.
search_apply_fn(p, policy_key, root, salt) ==
    LET a == (KeyBits(policy_key, salt) + root.prior_logits) % NumActions
        sim == recurrent_fn(p, a, root.embedding)
    IN  [action |-> a,
         action_weights |-> a,
         root_value |-> root.value + sim.reward + sim.discount * sim.value]

\* ---------------------------------------------------- environment (jumanji)
\* env.reset(key) and env.step(state, action); the state counts its steps.
\* the initial observation env.reset draws from its key
ResetObs(k, salt) == KeyBits(k, salt) % ObsMod
EnvReset(s0) == [t |-> 0, s |-> s0, len |-> 0]
ResetTimeStep(s0) == [observation |-> s0, reward |-> 0, last |-> FALSE, episode_length |-> 0]
EnvStep(st, action) ==
    LET s2 == (2 * st.s + action + 1) % ObsMod
        last == (st.len + 1 = EpisodeLen)
    IN  [state |-> [t |-> st.t + 1, s |-> s2, len |-> IF last THEN 0 ELSE st.len + 1],
         timestep |-> [observation |-> s2,
                       reward |-> (st.s + action) % 2,
                       last |-> last,
                       episode_length |-> st.len + 1]]

\* AZTransition(done, action, value, reward, search_value, search_policy, obs, info)
AZTransition(done, action, value, reward, search_value, search_policy, obs, info) ==
    [done |-> done, action |-> action, value |-> value, reward |-> reward,
     search_value |-> search_value, search_policy |-> search_policy,
     obs |-> obs, info |-> info]

\* variant: the transition records the observation the step returned, not
\* the one the search root was built from
EnvStepBodyNextObs(p, k, st, ts, salt) ==
    LET ks == Split(k, 2)
        root == root_fn(p, ts.observation)
        search_output == search_apply_fn(p, ks[2], root, salt)
        stepped == EnvStep(st, search_output.action)
    IN  [key |-> ks[1],
         policy_key |-> ks[2],
         env_state |-> stepped.state,
         timestep |-> stepped.timestep,
         transition |-> AZTransition(stepped.timestep.last,
                                     search_output.action,
                                     Critic(p["critic_params"],
                                            Representation(p["representation_params"],
                                                           ts.observation)),
                                     stepped.timestep.reward,
                                     search_output.root_value,
                                     search_output.action_weights,
                                     stepped.timestep.observation,
                                     stepped.timestep.episode_length)]
\* One pass of the body shared by warmup._env_step and _update_step._env_step:
\* split the key, plan from the last observation, step the environment.
EnvStepBody(p, k, st, ts, salt) ==
    LET ks == Split(k, 2)
        policy_key == ks[2]
        root == root_fn(p, ts.observation)
        search_output == search_apply_fn(p, policy_key, root, salt)
        state_embedding == Representation(p["representation_params"], ts.observation)
        behaviour_value == Critic(p["critic_params"], state_embedding)
        stepped == EnvStep(st, search_output.action)
    IN  [key |-> ks[1],
         policy_key |-> policy_key,
         env_state |-> stepped.state,
         timestep |-> stepped.timestep,
         transition |-> AZTransition(stepped.timestep.last,
                                     search_output.action,
                                     behaviour_value,
                                     stepped.timestep.reward,
                                     search_output.root_value,
                                     search_output.action_weights,
                                     ts.observation,
                                     stepped.timestep.episode_length)]

\* ------------------------------------------------ replay buffer (flashbax)
\* fbx.make_trajectory_buffer(max_size, min_length_time_axis,
\* sample_sequence_length, period = 1): a ring over the time axis per row.
dummy_transition == AZTransition(FALSE, 0, 0, 0, 0, 0, 0, -1)
BufferInit ==
    [experience |-> [i \in 1..BufferSize |-> dummy_transition],
     current_index |-> 0,
     is_full |-> FALSE]
RECURSIVE BufferAdd(_, _)
BufferAdd(buf, traj) ==
    IF traj = << >> THEN buf
    ELSE BufferAdd([experience |-> [buf.experience EXCEPT ![buf.current_index + 1] = Head(traj)],
                    current_index |-> (buf.current_index + 1) % BufferSize,
                    is_full |-> buf.is_full \/ buf.current_index + 1 = BufferSize],
                   Tail(traj))
\* the number of start positions a sample may draw from
NumStarts(buf) ==
    IF buf.is_full THEN BufferSize - SampleSequenceLength + 1
    ELSE IF buf.current_index >= SampleSequenceLength
         THEN buf.current_index - SampleSequenceLength + 1
         ELSE 1
BufferSample(buf, sample_key, salt) ==
    LET off == KeyBits(sample_key, salt) % NumStarts(buf)
        base == IF buf.is_full THEN buf.current_index ELSE 0
    IN  [experience |-> [i \in 1..SampleSequenceLength |->
                            buf.experience[((base + off + i - 1) % BufferSize) + 1]],
         start |-> (base + off) % BufferSize]

\* --------------------------------------------- losses and their gradients
\* The parameter arguments of each loss function, in order: _actor_loss_fn
\* (actor_params, representation_params, sequence), _critic_loss_fn
\* (critic_params, representation_params, sequence), _world_model_loss_fn
\* (world_model_params, sequence).
LossArgs(loss) ==
    CASE loss = "actor" -> << {"actor_params"}, {"representation_params"} >>
      [] loss = "critic" -> << {"critic_params"}, {"representation_params"} >>
      [] loss = "world_model" -> << WorldModelNames >>
\* jax.value_and_grad(fn, has_aux=True): argnums is left at its default, the
\* first argument.
\* variant: every parameter argument of the loss is differentiated
GradArgnumsAll(loss) == 1..Len(LossArgs(loss))
GradArgnums(loss) == {1}
GradDomain(loss) == UNION {LossArgs(loss)[i] : i \in GradArgnums(loss)}

\* What a sampled window contributes to a gradient: the networks are opaque,
\* so a window is summarised by a digest of the fields the losses read.
RECURSIVE WindowSum(_)
WindowSum(w) ==
    IF w = << >> THEN 0
    ELSE Head(w).obs + Head(w).action + Head(w).reward + Head(w).search_value
         + WindowSum(Tail(w))
Digest(w) == WindowSum(w) % 2
LeafCode(name) ==
    CASE name = "actor_params" -> 1
      [] name = "critic_params" -> 2
      [] name = "representation_params" -> 3
      [] name = "dynamics_params" -> 4
LossCode(loss) ==
    CASE loss = "actor" -> 0 [] loss = "critic" -> 1 [] loss = "world_model" -> 2

\* value_and_grad of one loss on one replica's sampled sequence: the loss
\* diagnostics and a gradient shaped like the differentiated argument.
ValueAndGrad(loss, w) ==
    [stage |-> "local",
     info |-> RInt(Digest(w) + LossCode(loss)),
     g |-> [k \in GradDomain(loss) |->
              [val |-> RInt(Digest(w) * LeafCode(k) + LossCode(loss)),
               losses |-> {loss}]]]
NoGrad(loss) ==
    [stage |-> "none",
     info |-> RInt(0),
     g |-> [k \in GradDomain(loss) |-> [val |-> RInt(0), losses |-> {}]]]
NoGrads == [loss \in Losses |-> NoGrad(loss)]

\* ------------------------------------------------------------------- pmean
RECURSIVE RSum(_, _)
RSum(f, n) == IF n = 0 THEN RInt(0) ELSE RAdd(RSum(f, n - 1), f[n])
\* variant: a reduction that adds and does not divide (psum)
RMeanAsSum(f, n) == RSum(f, n)
RMean(f, n) == RDivInt(RSum(f, n), n)

\* the replicas a pmean over an axis reduces with replica r
BatchGroup(r) == [b \in 1..UpdateBatchSize |-> <<r[1], b>>]
\* variant: a "device" reduction in which a replica reduces with itself alone
DeviceGroupSelf(r) == << r >>
DeviceGroup(r) == [d \in 1..NDevices |-> <<d, r[2]>>]
AxisGroup(axis, r) == IF axis = "batch" THEN BatchGroup(r) ELSE DeviceGroup(r)

\* jax.lax.pmean((grads, loss_info), axis_name = axis) as seen by replica r,
\* where G[q] is the (grads, loss_info) pair replica q contributes
\* grp is the sequence of replicas that take part in the reduction
PMeanOver(G, grp, axis, r) ==
    LET n == Len(grp)
    IN  [stage |-> axis,
         info |-> RMean([i \in 1..n |-> G[grp[i]].info], n),
         g |-> [k \in DOMAIN G[r].g |->
                  [val |-> RMean([i \in 1..n |-> G[grp[i]].g[k].val], n),
                   losses |-> UNION {G[grp[i]].g[k].losses : i \in 1..n}]]]
PMean(G, axis, r) == PMeanOver(G, AxisGroup(axis, r), axis, r)

\* variant: the reductions over "device" left out
PMeanScheduleBatchOnly ==
    << <<"actor", "batch">>, <<"critic", "batch">>, <<"world_model", "batch">> >>
\* The order of the six reductions of _update_epoch.
PMeanSchedule ==
    << <<"actor", "batch">>, <<"actor", "device">>,
       <<"critic", "batch">>, <<"critic", "device">>,
       <<"world_model", "batch">>, <<"world_model", "device">> >>

\* --------------------------------------------------------------- optimizer
\* optax.chain(clip_by_global_norm(max_grad_norm), adam(lr)).update
ClipLeaf(v) == RMax(RInt(-MaxGradNorm), RMin(v, RInt(MaxGradNorm)))
OptUpdate(grad_tree, opt_state) ==
    LET mu == [k \in DOMAIN opt_state.mu |->
                 [val |-> RAdd(opt_state.mu[k].val, ClipLeaf(grad_tree[k].val)),
                  losses |-> opt_state.mu[k].losses \cup grad_tree[k].losses]]
    IN  [updates |-> [k \in DOMAIN mu |-> [val |-> RNeg(mu[k].val), losses |-> mu[k].losses]],
         state |-> [count |-> opt_state.count + 1, mu |-> mu]]
\* optax.apply_updates(params, updates)
ApplyUpdates(tree, updates) ==
    [k \in DOMAIN tree |->
        [val |-> RAdd(tree[k].val, updates[k].val),
         losses |-> tree[k].losses \cup updates[k].losses,
         writes |-> tree[k].writes + 1]]

\* variant: the packing keeps the critic subtree it was given
PackParamsStaleCritic(p, actor_new_params, critic_new_params, world_model_new_params) ==
    Merge(Merge(actor_new_params, Restrict(p, {"critic_params"})), world_model_new_params)
\* PACK NEW PARAMS AND OPTIMISER STATE
PackParams(p, actor_new_params, critic_new_params, world_model_new_params) ==
    Merge(Merge(actor_new_params, critic_new_params), world_model_new_params)
PackOptStates(o, actor_new_opt_state, critic_new_opt_state, world_model_new_opt_state) ==
    [actor_opt_state |-> actor_new_opt_state,
     critic_opt_state |-> critic_new_opt_state,
     world_model_opt_state |-> world_model_new_opt_state]

\* which gradient each of the three update calls is handed
UpdateGradOf(opt_name) ==
    CASE opt_name = "actor_opt_state" -> "actor"
      [] opt_name = "critic_opt_state" -> "critic"
      [] opt_name = "world_model_opt_state" -> "world_model"

\* The tail of _update_epoch, after the reductions: the three optimizer
\* updates, the packing, and the carry it returns.
UpdateTail(p, o, buf, k, G) ==
    LET actor == OptUpdate(G[UpdateGradOf("actor_opt_state")].g, o.actor_opt_state)
        actor_new_params == ApplyUpdates(Restrict(p, {"actor_params"}), actor.updates)
        critic == OptUpdate(G[UpdateGradOf("critic_opt_state")].g, o.critic_opt_state)
        critic_new_params == ApplyUpdates(Restrict(p, {"critic_params"}), critic.updates)
        wm == OptUpdate(G[UpdateGradOf("world_model_opt_state")].g, o.world_model_opt_state)
        world_model_new_params == ApplyUpdates(Restrict(p, WorldModelNames), wm.updates)
    IN  [params |-> PackParams(p, actor_new_params, critic_new_params, world_model_new_params),
         opt_states |-> PackOptStates(o, actor.state, critic.state, wm.state),
         buffer_state |-> buf,
         key |-> k]

\* ------------------------------------------------------------------- state
VARIABLES
    load_model,      \* config.logger.checkpointing.load_model
    salt,            \* which PRNG bit-stream the key paths stand for
    warmup_params,   \* the params get_warmup_fn closes over
    pc,              \* per device: position in warmup / learn
    step_i,          \* per device: index of the env-step scan
    update_i,        \* per device: index of the update-step scan
    epoch_i,         \* per device: index of the epoch scan
    red_i,           \* per device: index into PMeanSchedule
    eval_step,       \* run_experiment's loop index
    params,          \* per replica: MZLearnerState.params
    opt_states,      \* per replica: MZLearnerState.opt_states
    buffer_state,    \* per replica: MZLearnerState.buffer_state
    key,             \* per replica: MZLearnerState.key (step_keys)
    env_state,       \* per replica: MZLearnerState.env_state
    last_timestep,   \* per replica: MZLearnerState.timestep
    warmup_key,      \* per replica: warmup's key carry (warmup_keys)
    traj_batch,      \* per replica: transitions of the running scan
    sequence,        \* per replica: the sampled window of the running epoch
    grads,           \* per replica: (grads, loss_info) of the three losses
    draws,           \* per replica: the keys consumed by random draws, in order
    splits,          \* per replica: the keys it has split
    cnt,             \* per device: how many steps of each kind it has taken
    loss_in,         \* a loss function's inputs: sequence, n_steps, params
    loss_pc,         \* which loss function is to run on loss_in
    loss_out,        \* what it returned
    config,          \* run_experiment: the configuration it was given
    run_pc,          \* run_experiment / learner_setup: the statement reached
    built,           \* the stateful resources constructed so far
    raised,          \* the exception that ended the run, if any
    search_method,   \* learner_setup: what parse_search_method returned
    setup_params,    \* learner_setup: its local variable params
    warmup_fn_params,      \* the params argument get_warmup_fn was called with
    buffer_writer_params,  \* the params the warmup that filled the buffer planned with
    learner_params,  \* learner_state.params
    run_eval_step,   \* run_experiment: iterations of the evaluation loop done
    returns,         \* the episode_return of each evaluation so far
    max_episode_return,
    best_params,
    abs_params       \* the params the absolute-metric evaluator was run on

vars == << load_model, salt, warmup_params, pc, step_i, update_i, epoch_i, red_i,
           eval_step, params, opt_states, buffer_state, key, env_state,
           last_timestep, warmup_key, traj_batch, sequence, grads, draws,
           splits, cnt, loss_in, loss_pc, loss_out, config, run_pc, built, raised,
           search_method, setup_params, warmup_fn_params, buffer_writer_params,
           learner_params, run_eval_step, returns, max_episode_return,
           best_params, abs_params >>
loss_vars == << loss_in, loss_pc, loss_out >>
run_vars == << config, run_pc, built, raised, search_method, setup_params,
              warmup_fn_params, buffer_writer_params, learner_params,
              run_eval_step, returns, max_episode_return, best_params, abs_params >>
learner_vars == << load_model, salt, warmup_params, pc, step_i, update_i, epoch_i,
                   red_i, eval_step, params, opt_states, buffer_state, key,
                   env_state, last_timestep, warmup_key, traj_batch, sequence,
                   grads, draws, splits, cnt >>

\* ---------------------------------------------- learner_setup (construction)
\* run_experiment: split(PRNGKey(seed), 6); learner_setup: split(key, N + 1)
\* for the env resets, then split(key, 3) into key, step_keys, warmup_keys.
SeedKey == RootKey
SetupKey == Split(SeedKey, 6)[1]
ReplicaIndex(r) == (r[1] - 1) * UpdateBatchSize + r[2]
NumResetKeys == NDevices * UpdateBatchSize
EnvKey(r) == Split(SetupKey, NumResetKeys + 1)[ReplicaIndex(r) + 1]
SetupKey2 == Split(SetupKey, NumResetKeys + 1)[1]
step_keys == Split(SetupKey2, 3)[2]
warmup_keys == Split(SetupKey2, 3)[3]
SetupSplits == {SeedKey, SetupKey, SetupKey2}

\* a params variable that has not been assigned
NoParams == [k \in ParamNames |-> Leaf(RInt(-1))]
\* run_experiment's own bookkeeping, not looked at
RunOff ==
    /\ config = << >> /\ run_pc = "off" /\ built = {} /\ raised = "none"
    /\ search_method = "none" /\ setup_params = NoParams
    /\ warmup_fn_params = NoParams /\ buffer_writer_params = NoParams
    /\ learner_params = NoParams /\ run_eval_step = 0 /\ returns = << >>
    /\ max_episode_return = InitMaxEpisodeReturn /\ best_params = NoParams
    /\ abs_params = NoParams

\* broadcast over update_batch_size, then replicate over devices
Replicate(x) == [r \in Replicas |-> x]

ZeroCnt == [wenv |-> 0, wadd |-> 0, env |-> 0, add |-> 0, sample |-> 0, grad |-> 0, update |-> 0]

Init ==
    /\ load_model \in BOOLEAN
    /\ salt \in 0..MaxSalt
    /\ warmup_params = FreshParams
    /\ params = Replicate(IF load_model THEN RestoredParams ELSE FreshParams)
    /\ opt_states = Replicate(InitOptStates(FreshParams))
    /\ buffer_state = Replicate(BufferInit)
    /\ key = Replicate(step_keys)
    /\ warmup_key = Replicate(warmup_keys)
    /\ env_state = [r \in Replicas |-> EnvReset(ResetObs(EnvKey(r), salt))]
    /\ last_timestep = [r \in Replicas |-> ResetTimeStep(ResetObs(EnvKey(r), salt))]
    /\ draws = [r \in Replicas |-> << EnvKey(r) >>]
    /\ splits = [r \in Replicas |-> {}]
    /\ pc = [d \in Devices |-> "warmup"]
    /\ step_i = [d \in Devices |-> 0]
    /\ update_i = [d \in Devices |-> 0]
    /\ epoch_i = [d \in Devices |-> 0]
    /\ red_i = [d \in Devices |-> 1]
    /\ eval_step = 0
    /\ traj_batch = [r \in Replicas |-> << >>]
    /\ sequence = [r \in Replicas |-> << >>]
    /\ grads = [r \in Replicas |-> NoGrads]
    /\ cnt = [d \in Devices |-> ZeroCnt]
    /\ loss_in = << >>
    /\ loss_pc = "off"
    /\ loss_out = << >>
    /\ RunOff

\* f with the entries of the replicas of device d replaced by g(r)
OnDevice(f, d, g(_)) == [r \in Replicas |-> IF r[1] = d THEN g(r) ELSE f[r]]

\* ------------------------------------------------------------------ warmup
\* variant: a warmup one step short of the buffer's minimum length
warmup_scan_length_short == SampleSequenceLength - 1
\* the length of warmup's scan: config.system.warmup_steps
warmup_scan_length == WarmupSteps
WarmupBody(r) == EnvStepBody(warmup_params, warmup_key[r], env_state[r], last_timestep[r], salt)

\* warmup._env_step, one iteration of the scan over warmup_steps
WarmupEnvStep(d) ==
    /\ pc[d] = "warmup"
    /\ step_i[d] < warmup_scan_length
    /\ LET B(r) == WarmupBody(r)
           K(r) == B(r).key
           E(r) == B(r).env_state
           T(r) == B(r).timestep
           J(r) == Append(traj_batch[r], B(r).transition)
           D(r) == Append(draws[r], B(r).policy_key)
           S(r) == splits[r] \cup {warmup_key[r]}
       IN  /\ warmup_key' = OnDevice(warmup_key, d, K)
           /\ env_state' = OnDevice(env_state, d, E)
           /\ last_timestep' = OnDevice(last_timestep, d, T)
           /\ traj_batch' = OnDevice(traj_batch, d, J)
           /\ draws' = OnDevice(draws, d, D)
           /\ splits' = OnDevice(splits, d, S)
    /\ step_i' = [step_i EXCEPT ![d] = @ + 1]
    /\ cnt' = [cnt EXCEPT ![d].wenv = @ + 1]
    /\ UNCHANGED << load_model, salt, warmup_params, pc, update_i, epoch_i, red_i,
                    eval_step, params, opt_states, buffer_state, key, sequence,
                    grads >>
    /\ UNCHANGED << loss_vars, run_vars >>

\* the end of warmup: buffer_add_fn(buffer_states, traj_batch); the key carry
\* it returns is dropped by learner_setup
WarmupAdd(d) ==
    /\ pc[d] = "warmup"
    /\ step_i[d] = warmup_scan_length
    /\ LET A(r) == BufferAdd(buffer_state[r], traj_batch[r])
           Z(r) == << >>
       IN  /\ buffer_state' = OnDevice(buffer_state, d, A)
           /\ traj_batch' = OnDevice(traj_batch, d, Z)
    /\ pc' = [pc EXCEPT ![d] = "ready"]
    /\ step_i' = [step_i EXCEPT ![d] = 0]
    /\ cnt' = [cnt EXCEPT ![d].wadd = @ + 1]
    /\ UNCHANGED << load_model, salt, warmup_params, update_i, epoch_i, red_i,
                    eval_step, params, opt_states, key, env_state, last_timestep,
                    warmup_key, sequence, grads, draws, splits >>
    /\ UNCHANGED << loss_vars, run_vars >>

\* ------------------------------------------------------------------- learn
\* the lengths of the three scans of learner_fn / _update_step
update_scan_length == NumUpdatesPerEval
rollout_scan_length == RolloutLength
\* variant: the epoch scan runs one iteration too many
epoch_scan_length_extra == Epochs + 1
epoch_scan_length == Epochs

\* run_experiment: learner_output = learn(learner_state), called once the
\* previous call (or learner_setup) has returned on every device
LearnCall ==
    /\ eval_step < NumEvaluation
    /\ \A d \in Devices : pc[d] = "ready"
    /\ pc' = [d \in Devices |-> "collect"]
    /\ step_i' = [d \in Devices |-> 0]
    /\ update_i' = [d \in Devices |-> 0]
    /\ epoch_i' = [d \in Devices |-> 0]
    /\ UNCHANGED << load_model, salt, warmup_params, red_i, eval_step, params,
                    opt_states, buffer_state, key, env_state, last_timestep,
                    warmup_key, traj_batch, sequence, grads, draws, splits, cnt >>
    /\ UNCHANGED << loss_vars, run_vars >>

LearnBody(r) == EnvStepBody(params[r], key[r], env_state[r], last_timestep[r], salt)

\* _update_step._env_step, one iteration of the scan over rollout_length
EnvStepLearn(d) ==
    /\ pc[d] = "collect"
    /\ step_i[d] < rollout_scan_length
    /\ LET B(r) == LearnBody(r)
           K(r) == B(r).key
           E(r) == B(r).env_state
           T(r) == B(r).timestep
           J(r) == Append(traj_batch[r], B(r).transition)
           D(r) == Append(draws[r], B(r).policy_key)
           S(r) == splits[r] \cup {key[r]}
       IN  /\ key' = OnDevice(key, d, K)
           /\ env_state' = OnDevice(env_state, d, E)
           /\ last_timestep' = OnDevice(last_timestep, d, T)
           /\ traj_batch' = OnDevice(traj_batch, d, J)
           /\ draws' = OnDevice(draws, d, D)
           /\ splits' = OnDevice(splits, d, S)
    /\ step_i' = [step_i EXCEPT ![d] = @ + 1]
    /\ cnt' = [cnt EXCEPT ![d].env = @ + 1]
    /\ UNCHANGED << load_model, salt, warmup_params, pc, update_i, epoch_i, red_i,
                    eval_step, params, opt_states, buffer_state, warmup_key,
                    sequence, grads >>
    /\ UNCHANGED << loss_vars, run_vars >>

\* buffer_state = buffer_add_fn(buffer_state, traj_batch), after the rollout
RolloutAdd(d) ==
    /\ pc[d] = "collect"
    /\ step_i[d] = rollout_scan_length
    /\ LET A(r) == BufferAdd(buffer_state[r], traj_batch[r])
           Z(r) == << >>
       IN  /\ buffer_state' = OnDevice(buffer_state, d, A)
           /\ traj_batch' = OnDevice(traj_batch, d, Z)
    /\ pc' = [pc EXCEPT ![d] = IF epoch_scan_length > 0 THEN "sample" ELSE "step_end"]
    /\ epoch_i' = [epoch_i EXCEPT ![d] = 0]
    /\ cnt' = [cnt EXCEPT ![d].add = @ + 1]
    /\ UNCHANGED << load_model, salt, warmup_params, step_i, update_i, red_i,
                    eval_step, params, opt_states, key, env_state, last_timestep,
                    warmup_key, sequence, grads, draws, splits >>
    /\ UNCHANGED << loss_vars, run_vars >>

\* _update_epoch: key, sample_key = split(key); buffer_sample_fn(buffer_state, sample_key)
\* variant: a sample that moves the buffer's write index
SampleOutAdvancing(r) ==
    LET ks == Split(key[r], 2)
    IN  [key |-> ks[1],
         sample_key |-> ks[2],
         buffer_state |-> [buffer_state[r] EXCEPT !.current_index = (@ + 1) % BufferSize],
         sequence |-> BufferSample(buffer_state[r], ks[2], salt).experience]
SampleOut(r) ==
    LET ks == Split(key[r], 2)
    IN  [key |-> ks[1],
         sample_key |-> ks[2],
         buffer_state |-> buffer_state[r],
         sequence |-> BufferSample(buffer_state[r], ks[2], salt).experience]

Sample(d) ==
    /\ pc[d] = "sample"
    /\ LET K(r) == SampleOut(r).key
           Q(r) == SampleOut(r).sequence
           U(r) == SampleOut(r).buffer_state
           D(r) == Append(draws[r], SampleOut(r).sample_key)
           S(r) == splits[r] \cup {key[r]}
       IN  /\ key' = OnDevice(key, d, K)
           /\ sequence' = OnDevice(sequence, d, Q)
           /\ buffer_state' = OnDevice(buffer_state, d, U)
           /\ draws' = OnDevice(draws, d, D)
           /\ splits' = OnDevice(splits, d, S)
    /\ pc' = [pc EXCEPT ![d] = "grad"]
    /\ cnt' = [cnt EXCEPT ![d].sample = @ + 1]
    /\ UNCHANGED << load_model, salt, warmup_params, step_i, update_i, epoch_i,
                    red_i, eval_step, params, opt_states, env_state,
                    last_timestep, warmup_key, traj_batch, grads >>
    /\ UNCHANGED << loss_vars, run_vars >>

\* the three value_and_grad calls on the replica's own sequence
LocalGrads(r) == [loss \in Losses |-> ValueAndGrad(loss, sequence[r])]

ComputeGrads(d) ==
    /\ pc[d] = "grad"
    /\ grads' = OnDevice(grads, d, LocalGrads)
    /\ pc' = [pc EXCEPT ![d] = IF Len(PMeanSchedule) > 0 THEN "pmean" ELSE "update"]
    /\ red_i' = [red_i EXCEPT ![d] = 1]
    /\ cnt' = [cnt EXCEPT ![d].grad = @ + 1]
    /\ UNCHANGED << load_model, salt, warmup_params, step_i, update_i, epoch_i,
                    eval_step, params, opt_states, buffer_state, key, env_state,
                    last_timestep, warmup_key, traj_batch, sequence, draws, splits >>
    /\ UNCHANGED << loss_vars, run_vars >>

AfterReduction(i) == IF i < Len(PMeanSchedule) THEN "pmean" ELSE "update"

\* pmean over "batch": the rows of one device, no other device takes part
PMeanBatch(d) ==
    /\ pc[d] = "pmean"
    /\ PMeanSchedule[red_i[d]][2] = "batch"
    /\ LET loss == PMeanSchedule[red_i[d]][1]
           G == [q \in Replicas |-> grads[q][loss]]
           N(r) == [grads[r] EXCEPT ![loss] = PMean(G, "batch", r)]
       IN  grads' = OnDevice(grads, d, N)
    /\ pc' = [pc EXCEPT ![d] = AfterReduction(red_i[d])]
    /\ red_i' = [red_i EXCEPT ![d] = @ + 1]
    /\ UNCHANGED << load_model, salt, warmup_params, step_i, update_i, epoch_i,
                    eval_step, params, opt_states, buffer_state, key, env_state,
                    last_timestep, warmup_key, traj_batch, sequence, draws,
                    splits, cnt >>
    /\ UNCHANGED << loss_vars, run_vars >>

\* pmean over "device": a collective, every device contributes and none
\* leaves it before all have arrived
PMeanDevice ==
    /\ \A d \in Devices : pc[d] = "pmean" /\ red_i[d] = red_i[1]
    /\ PMeanSchedule[red_i[1]][2] = "device"
    /\ LET loss == PMeanSchedule[red_i[1]][1]
           G == [q \in Replicas |-> grads[q][loss]]
       IN  grads' = [r \in Replicas |-> [grads[r] EXCEPT ![loss] = PMean(G, "device", r)]]
    /\ pc' = [d \in Devices |-> AfterReduction(red_i[d])]
    /\ red_i' = [d \in Devices |-> red_i[d] + 1]
    /\ UNCHANGED << load_model, salt, warmup_params, step_i, update_i, epoch_i,
                    eval_step, params, opt_states, buffer_state, key, env_state,
                    last_timestep, warmup_key, traj_batch, sequence, draws,
                    splits, cnt >>
    /\ UNCHANGED << loss_vars, run_vars >>

\* the three optimizer updates and the carry of _update_epoch; the epoch scan
\* then runs its next iteration or ends
UpdateOut(r) == UpdateTail(params[r], opt_states[r], buffer_state[r], key[r], grads[r])

Update(d) ==
    /\ pc[d] = "update"
    /\ LET P(r) == UpdateOut(r).params
           O(r) == UpdateOut(r).opt_states
           U(r) == UpdateOut(r).buffer_state
           K(r) == UpdateOut(r).key
           Z(r) == << >>
           N(r) == NoGrads
       IN  /\ params' = OnDevice(params, d, P)
           /\ opt_states' = OnDevice(opt_states, d, O)
           /\ buffer_state' = OnDevice(buffer_state, d, U)
           /\ key' = OnDevice(key, d, K)
           /\ sequence' = OnDevice(sequence, d, Z)
           /\ grads' = OnDevice(grads, d, N)
    /\ epoch_i' = [epoch_i EXCEPT ![d] = @ + 1]
    /\ pc' = [pc EXCEPT ![d] = IF epoch_i[d] + 1 < epoch_scan_length THEN "sample" ELSE "step_end"]
    /\ cnt' = [cnt EXCEPT ![d].update = @ + 1]
    /\ UNCHANGED << load_model, salt, warmup_params, step_i, update_i, red_i,
                    eval_step, env_state, last_timestep, warmup_key, traj_batch,
                    draws, splits >>
    /\ UNCHANGED << loss_vars, run_vars >>

\* the end of _update_step: the learner state is repacked and the update scan
\* runs its next iteration or learn returns
UpdateStepEnd(d) ==
    /\ pc[d] = "step_end"
    /\ update_i' = [update_i EXCEPT ![d] = @ + 1]
    /\ step_i' = [step_i EXCEPT ![d] = 0]
    /\ epoch_i' = [epoch_i EXCEPT ![d] = 0]
    /\ pc' = [pc EXCEPT ![d] = IF update_i[d] + 1 < update_scan_length THEN "collect" ELSE "returned"]
    /\ UNCHANGED << load_model, salt, warmup_params, red_i, eval_step, params,
                    opt_states, buffer_state, key, env_state, last_timestep,
                    warmup_key, traj_batch, sequence, grads, draws, splits, cnt >>
    /\ UNCHANGED << loss_vars, run_vars >>

\* run_experiment: block_until_ready(learner_output), evaluate, and
\* learner_state = learner_output.learner_state
EvalInterval ==
    /\ \A d \in Devices : pc[d] = "returned"
    /\ eval_step' = eval_step + 1
    /\ pc' = [d \in Devices |-> "ready"]
    /\ update_i' = [d \in Devices |-> 0]
    /\ UNCHANGED << load_model, salt, warmup_params, step_i, epoch_i,
                    red_i, params, opt_states, buffer_state, key, env_state,
                    last_timestep, warmup_key, traj_batch, sequence, grads,
                    draws, splits, cnt >>
    /\ UNCHANGED << loss_vars, run_vars >>

Next ==
    \/ \E d \in Devices : WarmupEnvStep(d)
    \/ \E d \in Devices : WarmupAdd(d)
    \/ LearnCall
    \/ \E d \in Devices : EnvStepLearn(d)
    \/ \E d \in Devices : RolloutAdd(d)
    \/ \E d \in Devices : Sample(d)
    \/ \E d \in Devices : ComputeGrads(d)
    \/ \E d \in Devices : PMeanBatch(d)
    \/ PMeanDevice
    \/ \E d \in Devices : Update(d)
    \/ \E d \in Devices : UpdateStepEnd(d)
    \/ EvalInterval

Spec == Init /\ [][Next]_vars

\* ------------------------------------------------- the loss functions proper
\* config.system.gamma
Gamma == Rat(GammaNum, GammaDen)
Min(a, b) == IF a < b THEN a ELSE b

\* stoix.utils.multistep.batch_n_step_bootstrapped_returns(r_t, discount_t,
\* v_t, n) for one row: the bootstrap values are v_t shifted by n - 1 and
\* padded with the last one, rewards are padded with 0 and discounts with 1,
\* and the n rewards are folded in from the last to the first.
RECURSIVE NStepFold(_, _, _, _)
NStepFold(targets, r_pad, d_pad, i) ==
    IF i = 0 THEN targets
    ELSE NStepFold([t \in 1..Len(targets) |->
                       RAdd(r_pad[t + i - 1], RMul(d_pad[t + i - 1], targets[t]))],
                   r_pad, d_pad, i - 1)
\* variant: past the end of the window the bootstrap value is 0
batch_n_step_bootstrapped_returns_zero_pad(r_t, discount_t, v_t, n) ==
    LET L == Len(r_t)
        r_pad == [t \in 1..(L + n - 1) |-> IF t <= L THEN r_t[t] ELSE RInt(0)]
        d_pad == [t \in 1..(L + n - 1) |-> IF t <= L THEN discount_t[t] ELSE RInt(1)]
        boot == [t \in 1..L |-> IF t + n - 1 <= L THEN v_t[t + n - 1] ELSE RInt(0)]
    IN  NStepFold(boot, r_pad, d_pad, n)
batch_n_step_bootstrapped_returns(r_t, discount_t, v_t, n) ==
    LET L == Len(r_t)
        r_pad == [t \in 1..(L + n - 1) |-> IF t <= L THEN r_t[t] ELSE RInt(0)]
        d_pad == [t \in 1..(L + n - 1) |-> IF t <= L THEN discount_t[t] ELSE RInt(1)]
        boot == [t \in 1..L |-> v_t[Min(t + n - 1, L)]]
    IN  NStepFold(boot, r_pad, d_pad, n)

\* rlax.l2_loss and the mean over the entries
L2(x, y) == RDivInt(RMul(RSub(x, y), RSub(x, y)), 2)
MeanL2(xs, ys) ==
    IF Len(xs) = 0 THEN RInt(0)
    ELSE RMean([t \in 1..Len(xs) |-> L2(xs[t], ys[t])], Len(xs))

\* variant: the discount ignores the termination flag
DiscountIgnoringDone(done) == Gamma
\* d_t = (1.0 - done) * gamma
Discount(done) == RMul(RInt(IF done THEN 0 ELSE 1), Gamma)
\* x[:, :-1]
DropLast(x) == [t \in 1..(Len(x) - 1) |-> x[t]]
\* variant: the search values are cut like the rewards, without the shift
SearchValuesUnshifted(w) == DropLast([t \in 1..Len(w) |-> RInt(w[t].search_value)])
\* search_values = sequence.search_value[:, 1:]
SearchValues(w) == [t \in 1..(Len(w) - 1) |-> RInt(w[t + 1].search_value)]

\* _critic_loss_fn(critic_params, representation_params, sequence): the value
\* predictions and the targets they are regressed on.  The scalar it returns,
\* vf_coef * mean(l2_loss(pred_value, n_step_returns)), is a function of
\* these two sequences and is not carried.
critic_loss_fn(critic_params, representation_params, w, n) ==
    LET state_embedding == [t \in 1..Len(w) |-> Representation(representation_params, w[t].obs)]
        pred_value == DropLast([t \in 1..Len(w) |-> RInt(Critic(critic_params, state_embedding[t]))])
        r_t == DropLast([t \in 1..Len(w) |-> RInt(w[t].reward)])
        d_t == DropLast([t \in 1..Len(w) |-> Discount(w[t].done)])
        n_step_returns == batch_n_step_bootstrapped_returns(r_t, d_t, SearchValues(w), n)
    IN  [pred_value |-> pred_value,
         n_step_returns |-> n_step_returns]

\* variant: the unroll starts from the embedding of the last observation
InitialEmbeddingLast(representation_params, w) ==
    Representation(representation_params, w[Len(w)].obs)
\* representation_apply_fn(representation_params, sequence.obs)[:, 0]
InitialEmbedding(representation_params, w) ==
    Representation(representation_params, w[1].obs)

\* jax.lax.scan(unroll_fn, (state_embedding, dynamics_params), action): the
\* rewards predicted along the recorded actions
RECURSIVE Unroll(_, _, _)
Unroll(state_embedding, dynamics_params, actions) ==
    IF actions = << >> THEN << >>
    ELSE LET out == Dynamics(dynamics_params, state_embedding, Head(actions))
         IN  << out.reward >>
             \o Unroll(out.next_state_embedding, dynamics_params, Tail(actions))

\* _world_model_loss_fn(world_model_params, sequence)
world_model_loss_fn(world_model_params, w) ==
    LET state_embedding == InitialEmbedding(world_model_params["representation_params"], w)
        action == [t \in 1..Len(w) |-> w[t].action]
        predicted_rewards == Unroll(state_embedding, world_model_params["dynamics_params"], action)
        reward_loss == MeanL2([t \in 1..Len(w) |-> RInt(predicted_rewards[t])],
                              [t \in 1..Len(w) |-> RInt(w[t].reward)])
    IN  [reward_loss |-> reward_loss, predicted_rewards |-> predicted_rewards]

\* The windows a loss is run on: every sequence of 2..MaxWindowLen
\* transitions over the fields the loss reads.
CriticWindows(T) ==
    [1..T -> {AZTransition(d, 0, 0, r, v, 0, 0, 0) :
                 d \in BOOLEAN, r \in 0..1, v \in {0, 5}}]
WorldModelWindows(T) ==
    [1..T -> {AZTransition(FALSE, a, 0, r, 0, 0, o, 0) :
                 a \in 0..(NumActions - 1), r \in 0..1, o \in 0..1}]

LearnerOff ==
    /\ load_model = FALSE /\ salt = 0 /\ warmup_params = << >>
    /\ pc = << >> /\ step_i = << >> /\ update_i = << >> /\ epoch_i = << >>
    /\ red_i = << >> /\ eval_step = 0 /\ params = << >> /\ opt_states = << >>
    /\ buffer_state = << >> /\ key = << >> /\ env_state = << >>
    /\ last_timestep = << >> /\ warmup_key = << >> /\ traj_batch = << >>
    /\ sequence = << >> /\ grads = << >> /\ draws = << >> /\ splits = << >>
    /\ cnt = << >>

InitLoss ==
    /\ LearnerOff
    /\ RunOff
    /\ loss_out = << >>
    /\ \/ /\ loss_pc = "critic"
          /\ \E T \in 2..MaxWindowLen, n \in 1..MaxNSteps :
                \E w \in CriticWindows(T) :
                    loss_in = [sequence |-> w, n_steps |-> n, params |-> FreshParams]
       \/ /\ loss_pc = "world_model"
          /\ \E T \in 2..MaxWindowLen, p \in {FreshParams, RestoredParams} :
                \E w \in WorldModelWindows(T) :
                    loss_in = [sequence |-> w, n_steps |-> 1, params |-> p]

CriticLoss ==
    /\ loss_pc = "critic"
    /\ loss_out' = critic_loss_fn(loss_in.params["critic_params"],
                                  loss_in.params["representation_params"],
                                  loss_in.sequence, loss_in.n_steps)
    /\ loss_pc' = "critic_done"
    /\ UNCHANGED << loss_in, learner_vars, run_vars >>

WorldModelLoss ==
    /\ loss_pc = "world_model"
    /\ loss_out' = world_model_loss_fn(Restrict(loss_in.params, WorldModelNames),
                                       loss_in.sequence)
    /\ loss_pc' = "world_model_done"
    /\ UNCHANGED << loss_in, learner_vars, run_vars >>

NextLoss == CriticLoss \/ WorldModelLoss

SpecLoss == InitLoss /\ [][NextLoss]_vars

\* ------------------------------------- run_experiment and learner_setup
\* The statements of run_experiment, with learner_setup inlined, in program
\* order.  A learn call is taken as a whole here: it returns the params of
\* its interval.
LossOff == loss_in = << >> /\ loss_pc = "off" /\ loss_out = << >>

\* str.lower() on the method names drawn
Lower(name) ==
    CASE name = "MuZero" -> "muzero"
      [] name = "GUMBEL" -> "gumbel"
      [] OTHER -> name
SearchMethodNames == {"muzero", "MuZero", "gumbel", "GUMBEL", "alphazero", ""}
Configs ==
    [search_method : SearchMethodNames,
     num_updates : 1..MaxUpdates,
     num_evaluation : 1..MaxUpdates,
     load_model : BOOLEAN,
     absolute_metric : BOOLEAN]
\* what an evaluation may return, from below the initial max_episode_return up
EpisodeReturns == (InitMaxEpisodeReturn - 1)..MaxReturn
\* learner_output.learner_state.params of the i-th learn call
TrainedParams(i) == [k \in ParamNames |-> Leaf(RInt(i + 1))]

InitRun ==
    /\ LearnerOff
    /\ LossOff
    /\ config \in Configs
    /\ run_pc = "validate"
    /\ built = {} /\ raised = "none" /\ search_method = "none"
    /\ setup_params = NoParams /\ warmup_fn_params = NoParams
    /\ buffer_writer_params = NoParams /\ learner_params = NoParams
    /\ run_eval_step = 0 /\ returns = << >>
    /\ max_episode_return = InitMaxEpisodeReturn
    /\ best_params = NoParams /\ abs_params = NoParams

\* variant: the assertion admits num_updates = num_evaluation
CountsValidNotStrict(c) == c.num_updates >= c.num_evaluation
\* assert config.arch.num_updates > config.arch.num_evaluation
CountsValid(c) == c.num_updates > c.num_evaluation

ValidateCounts ==
    /\ run_pc = "validate"
    /\ IF CountsValid(config)
       THEN run_pc' = "make_env" /\ raised' = raised
       ELSE run_pc' = "failed" /\ raised' = "AssertionError"
    /\ UNCHANGED << config, built, search_method, setup_params, warmup_fn_params,
                    buffer_writer_params, learner_params, run_eval_step, returns,
                    max_episode_return, best_params, abs_params >>
    /\ UNCHANGED << learner_vars, loss_vars >>

\* env, eval_env = environments.make(config)
MakeEnvironments ==
    /\ run_pc = "make_env"
    /\ built' = built \cup {"env"}
    /\ run_pc' = "init_params"
    /\ UNCHANGED << config, raised, search_method, setup_params, warmup_fn_params,
                    buffer_writer_params, learner_params, run_eval_step, returns,
                    max_episode_return, best_params, abs_params >>
    /\ UNCHANGED << learner_vars, loss_vars >>

\* learner_setup: network.init for the four networks, optim.init for the
\* three optimizers, params = MZParams(...)
InitParamsAndOptStates ==
    /\ run_pc = "init_params"
    /\ setup_params' = FreshParams
    /\ built' = built \cup {"params", "opt_states"}
    /\ run_pc' = "parse_search"
    /\ UNCHANGED << config, raised, search_method, warmup_fn_params,
                    buffer_writer_params, learner_params, run_eval_step, returns,
                    max_episode_return, best_params, abs_params >>
    /\ UNCHANGED << learner_vars, loss_vars >>

\* parse_search_method(config)
parse_search_method(c) ==
    IF Lower(c.search_method) = "muzero" THEN "muzero_policy"
    ELSE IF Lower(c.search_method) = "gumbel" THEN "gumbel_muzero_policy"
    ELSE "ValueError"

\* learner_setup: search_method = parse_search_method(config)
ParseSearchMethod ==
    /\ run_pc = "parse_search"
    /\ IF parse_search_method(config) = "ValueError"
       THEN /\ raised' = "ValueError"
            /\ run_pc' = "failed"
            /\ search_method' = search_method
       ELSE /\ search_method' = parse_search_method(config)
            /\ run_pc' = "make_buffer"
            /\ raised' = raised
    /\ UNCHANGED << config, built, setup_params, warmup_fn_params,
                    buffer_writer_params, learner_params, run_eval_step, returns,
                    max_episode_return, best_params, abs_params >>
    /\ UNCHANGED << learner_vars, loss_vars >>

\* learner_setup: fbx.make_trajectory_buffer(...), buffer_fn.init(dummy_transition)
MakeBuffer ==
    /\ run_pc = "make_buffer"
    /\ built' = built \cup {"buffer"}
    /\ run_pc' = "make_fns"
    /\ UNCHANGED << config, raised, search_method, setup_params, warmup_fn_params,
                    buffer_writer_params, learner_params, run_eval_step, returns,
                    max_episode_return, best_params, abs_params >>
    /\ UNCHANGED << learner_vars, loss_vars >>

\* variant: the warmup function is handed the restored params
WarmupFnArgRestored(c, p) == IF c.load_model THEN RestoredParams ELSE p
\* learner_setup: warmup = get_warmup_fn(env, params, ...): the argument is
\* the value params has at this statement
WarmupFnArg(c, p) == p

MakeLearnAndWarmup ==
    /\ run_pc = "make_fns"
    /\ warmup_fn_params' = WarmupFnArg(config, setup_params)
    /\ run_pc' = "reset_env"
    /\ UNCHANGED << config, built, raised, search_method, setup_params,
                    buffer_writer_params, learner_params, run_eval_step, returns,
                    max_episode_return, best_params, abs_params >>
    /\ UNCHANGED << learner_vars, loss_vars >>

\* learner_setup: env_states, timesteps = jax.vmap(env.reset)(env_keys)
ResetEnvs ==
    /\ run_pc = "reset_env"
    /\ built' = built \cup {"env_states"}
    /\ run_pc' = "restore"
    /\ UNCHANGED << config, raised, search_method, setup_params, warmup_fn_params,
                    buffer_writer_params, learner_params, run_eval_step, returns,
                    max_episode_return, best_params, abs_params >>
    /\ UNCHANGED << learner_vars, loss_vars >>

\* learner_setup: if load_model: params = restored_params
RestoreCheckpoint ==
    /\ run_pc = "restore"
    /\ setup_params' = IF config.load_model THEN RestoredParams ELSE setup_params
    /\ run_pc' = "warmup"
    /\ UNCHANGED << config, built, raised, search_method, warmup_fn_params,
                    buffer_writer_params, learner_params, run_eval_step, returns,
                    max_episode_return, best_params, abs_params >>
    /\ UNCHANGED << learner_vars, loss_vars >>

\* learner_setup: replicate, then warmup(env_states, timesteps, buffer_states,
\* warmup_keys); warmup plans with the params it closed over
RunWarmup ==
    /\ run_pc = "warmup"
    /\ buffer_writer_params' = warmup_fn_params
    /\ run_pc' = "init_state"
    /\ UNCHANGED << config, built, raised, search_method, setup_params,
                    warmup_fn_params, learner_params, run_eval_step, returns,
                    max_episode_return, best_params, abs_params >>
    /\ UNCHANGED << learner_vars, loss_vars >>

\* learner_setup returns init_learner_state = MZLearnerState(params, ...);
\* run_experiment: max_episode_return = -1e7, best_params = learner_state.params
InitLearnerState ==
    /\ run_pc = "init_state"
    /\ learner_params' = setup_params
    /\ best_params' = setup_params
    /\ max_episode_return' = InitMaxEpisodeReturn
    /\ run_eval_step' = 0
    /\ run_pc' = "loop"
    /\ UNCHANGED << config, built, raised, search_method, setup_params,
                    warmup_fn_params, buffer_writer_params, returns, abs_params >>
    /\ UNCHANGED << learner_vars, loss_vars >>

\* variant: a return equal to the best one so far does not replace best_params
ImprovesStrictly(best, episode_return) == best < episode_return
\* max_episode_return <= episode_return
Improves(best, episode_return) == best <= episode_return

\* one iteration of the evaluation loop: learn, evaluate the trained params,
\* keep them as best_params if absolute_metric and the return is not worse
LearnAndEvaluate ==
    /\ run_pc = "loop"
    /\ run_eval_step < config.num_evaluation
    /\ \E episode_return \in EpisodeReturns :
          LET trained_params == TrainedParams(run_eval_step + 1)
              better == config.absolute_metric /\ Improves(max_episode_return, episode_return)
          IN  /\ returns' = Append(returns, episode_return)
              /\ best_params' = IF better THEN trained_params ELSE best_params
              /\ max_episode_return' = IF better THEN episode_return ELSE max_episode_return
              /\ learner_params' = trained_params
    /\ run_eval_step' = run_eval_step + 1
    /\ UNCHANGED << config, run_pc, built, raised, search_method, setup_params,
                    warmup_fn_params, buffer_writer_params, abs_params >>
    /\ UNCHANGED << learner_vars, loss_vars >>

\* after the loop: if absolute_metric, absolute_metric_evaluator(best_params, ...)
AbsoluteMetric ==
    /\ run_pc = "loop"
    /\ run_eval_step = config.num_evaluation
    /\ abs_params' = IF config.absolute_metric THEN best_params ELSE abs_params
    /\ run_pc' = "done"
    /\ UNCHANGED << config, built, raised, search_method, setup_params,
                    warmup_fn_params, buffer_writer_params, learner_params,
                    run_eval_step, returns, max_episode_return, best_params >>
    /\ UNCHANGED << learner_vars, loss_vars >>

NextRun ==
    \/ ValidateCounts
    \/ MakeEnvironments
    \/ InitParamsAndOptStates
    \/ ParseSearchMethod
    \/ MakeBuffer
    \/ MakeLearnAndWarmup
    \/ ResetEnvs
    \/ RestoreCheckpoint
    \/ RunWarmup
    \/ InitLearnerState
    \/ LearnAndEvaluate
    \/ AbsoluteMetric

SpecRun == InitRun /\ [][NextRun]_vars

\* ================================================================== claims
\* update steps device d has completed, over all learn calls
StepsDone(d) == eval_step * NumUpdatesPerEval + update_i[d]
InEpochs(d) == pc[d] \in {"sample", "grad", "pmean", "update", "step_end"}
R11 == <<1, 1>>
RN1 == <<NDevices, 1>>

\* C1 (replica agreement): two replicas that have applied the same number of
\* update epochs hold identical params and identical optimizer states (all
\* three), whatever their env states, buffers and sampled sequences are.
ReplicaAgreement ==
    \A r1, r2 \in Replicas :
        cnt[r1[1]].update = cnt[r2[1]].update
            => /\ params[r1] = params[r2]
               /\ opt_states[r1] = opt_states[r2]

\* two devices have both applied two update epochs from different buffers and
\* different environment states, and the params have moved
ReplicaAgreementWitness ==
    /\ cnt[1].update >= 2
    /\ cnt[NDevices].update = cnt[1].update
    /\ buffer_state[R11] # buffer_state[RN1]
    /\ env_state[R11] # env_state[RN1]
    /\ params[R11]["actor_params"].val # RInt(0)
    /\ params[R11]["actor_params"].val # RInt(1)

\* the mean, over devices, of the batch means of the local gradients of the
\* running epoch
MeanOfLocal(loss, k) ==
    RMean([d \in 1..NDevices |->
              RMean([b \in 1..UpdateBatchSize |->
                        ValueAndGrad(loss, sequence[<<d, b>>]).g[k].val],
                    UpdateBatchSize)],
          NDevices)

\* C2 (reduction as the synchronization point): a device that is about to
\* apply its optimizer updates holds, for each of the three losses, a gradient
\* that has been reduced over the device axis; every device has then computed
\* its local gradients for that epoch; and the gradient it holds is the mean
\* over devices of the batch means of all replicas' local gradients.
ReductionBeforeUpdate ==
    \A d \in Devices :
        pc[d] = "update"
            => /\ \A r \in ReplicasOf(d), loss \in Losses : grads[r][loss].stage = "device"
               /\ \A d2 \in Devices : cnt[d2].grad >= cnt[d].update + 1
               /\ (\A d2 \in Devices : pc[d2] = "update")
                     => \A r \in ReplicasOf(d), loss \in Losses :
                            \A k \in DOMAIN grads[r][loss].g :
                                grads[r][loss].g[k].val = MeanOfLocal(loss, k)

\* every device is about to update, and the local gradients of two devices
\* differ
ReductionBeforeUpdateWitness ==
    /\ \A d \in Devices : pc[d] = "update"
    /\ Digest(sequence[R11]) # Digest(sequence[RN1])

\* C3 (key discipline): no key value is consumed by two random draws (Search
\* calls, buffer samples, env resets) of any replicas, and no key that a draw
\* consumed is also split.
KeyDiscipline ==
    /\ \A r1, r2 \in Replicas :
          \A i \in DOMAIN draws[r1], j \in DOMAIN draws[r2] :
              (r1 # r2 \/ i # j) => draws[r1][i] # draws[r2][j]
    /\ \A r \in Replicas :
          \A i \in DOMAIN draws[r] :
              draws[r][i] \notin SetupSplits \cup UNION {splits[q] : q \in Replicas}

\* C4 (orchestration order), the counts: a returned learn call has taken
\* exactly num_updates_per_eval * rollout_length env steps, num_updates_per_eval
\* adds and num_updates_per_eval * epochs samples and updates; an add follows
\* exactly rollout_length env steps; samples and updates alternate and happen
\* only after the add of their iteration; the next rollout starts only after
\* all epochs of the iteration.
OrchestrationCounts ==
    \A d \in Devices :
        LET c == cnt[d] IN
        /\ pc[d] = "returned"
              => /\ c.env = (eval_step + 1) * NumUpdatesPerEval * RolloutLength
                 /\ c.add = (eval_step + 1) * NumUpdatesPerEval
                 /\ c.sample = (eval_step + 1) * NumUpdatesPerEval * Epochs
                 /\ c.update = c.sample
        /\ RolloutLength * c.add <= c.env
        /\ c.env <= RolloutLength * (c.add + 1)
        /\ c.update <= c.sample
        /\ c.sample <= c.update + 1
        /\ c.grad <= c.sample
        /\ c.update <= c.grad
        /\ c.sample <= Epochs * c.add
        /\ Epochs * (c.add - 1) <= c.update
        /\ c.env > RolloutLength * c.add => c.update = Epochs * c.add

\* C4, the frame: params and optimizer states change only in the update of an
\* epoch, and the environment is stepped only while collecting (or warming up).
OrchestrationStep ==
    \A r \in Replicas :
        LET d == r[1] IN
        /\ (params'[r] # params[r] \/ opt_states'[r] # opt_states[r])
              => pc[d] = "update" /\ cnt'[d].update = cnt[d].update + 1
        /\ env_state'[r] # env_state[r]
              => \/ pc[d] = "collect" /\ cnt'[d].env = cnt[d].env + 1
                 \/ pc[d] = "warmup" /\ cnt'[d].wenv = cnt[d].wenv + 1

\* C4 (orchestration order): learn runs num_updates_per_eval iterations of
\* rollout_length env steps, one add, then epochs x (sample, losses, reduce,
\* update); params and optimizer states change only in update epochs.
OrchestrationOrder == [](OrchestrationCounts) /\ [][OrchestrationStep]_vars

\* a learn call has returned on some device
OrchestrationOrderWitness ==
    \E d \in Devices : pc[d] = "returned" /\ cnt[d].update = NumUpdatesPerEval * Epochs

\* C8 as stated: once the representation parameters have been updated, the
\* actor-loss gradient has flowed into them.
ActorLossReachesRepresentation ==
    \A r \in Replicas :
        params[r]["representation_params"].writes >= 1
            => "actor" \in params[r]["representation_params"].losses

\* C8 (amended): the actor-loss gradient is taken with respect to the actor
\* parameters only and flows into the actor parameters only; the
\* representation parameters are updated from the world-model-loss gradient
\* alone.
ActorLossOwnsActorOnly ==
    \A r \in Replicas :
        /\ grads[r]["actor"].stage # "none"
              => DOMAIN grads[r]["actor"].g = {"actor_params"}
        /\ \A k \in ParamNames \ {"actor_params"} : "actor" \notin params[r][k].losses
        /\ params[r]["actor_params"].writes >= 1
              => "actor" \in params[r]["actor_params"].losses
        /\ params[r]["representation_params"].writes >= 1
              => params[r]["representation_params"].losses = {"world_model"}

\* an update epoch has been applied and the next actor gradient is reduced
ActorLossOwnsActorOnlyWitness ==
    \E r \in Replicas :
        /\ params[r]["representation_params"].writes >= 1
        /\ params[r]["actor_params"].writes >= 1
        /\ grads[r]["actor"].stage = "device"

\* the subtree, optimizer state and loss of each of the three owners
Owners ==
    { [names |-> {"actor_params"}, opt |-> "actor_opt_state", loss |-> "actor"],
      [names |-> {"critic_params"}, opt |-> "critic_opt_state", loss |-> "critic"],
      [names |-> WorldModelNames, opt |-> "world_model_opt_state", loss |-> "world_model"] }

\* C9, the state: every subtree and every optimizer state holds only its own
\* loss's gradient, and each has been written exactly once per applied epoch.
OwnershipState ==
    \A r \in Replicas, w \in Owners :
        /\ DOMAIN params[r] = ParamNames
        /\ DOMAIN opt_states[r][w.opt].mu = w.names
        /\ opt_states[r][w.opt].count = cnt[r[1]].update
        /\ \A k \in w.names :
              /\ params[r][k].losses \subseteq {w.loss}
              /\ opt_states[r][w.opt].mu[k].losses \subseteq {w.loss}
              /\ params[r][k].writes = cnt[r[1]].update

\* C9, the step: an update epoch replaces each subtree by its own optimizer's
\* update of it from its own loss's gradient, and advances that optimizer.
OwnershipStep ==
    \A r \in Replicas :
        cnt'[r[1]].update # cnt[r[1]].update
            => \A w \in Owners :
                  LET out == OptUpdate(grads[r][w.loss].g, opt_states[r][w.opt])
                  IN  /\ Restrict(params'[r], w.names)
                            = ApplyUpdates(Restrict(params[r], w.names), out.updates)
                      /\ opt_states'[r][w.opt] = out.state

\* C9 (disjoint ownership and lockstep merge)
DisjointOwnership == [](OwnershipState) /\ [][OwnershipStep]_vars

\* two epochs applied: the critic subtree was written twice, from the critic loss
DisjointOwnershipWitness ==
    \E r \in Replicas :
        /\ params[r]["critic_params"].writes = 2
        /\ params[r]["critic_params"].losses = {"critic"}
        /\ opt_states[r].world_model_opt_state.count = 2

\* C10, the state: add has been called once by warmup and once per update
\* step whose rollout is complete, and the write index is where these adds
\* left it.
BufferAdds ==
    \A r \in Replicas :
        LET d == r[1] IN
        /\ cnt[d].wadd = IF pc[d] = "warmup" THEN 0 ELSE 1
        /\ cnt[d].add = StepsDone(d) + IF InEpochs(d) THEN 1 ELSE 0
        /\ buffer_state[r].current_index
              = (WarmupSteps * cnt[d].wadd + RolloutLength * cnt[d].add) % BufferSize

\* C10, the step: buffer_state changes only by an add of the finished scan;
\* a sample and an update epoch hand on the buffer_state they received.
BufferStep ==
    \A r \in Replicas :
        LET d == r[1] IN
        /\ buffer_state'[r] # buffer_state[r]
              => /\ \/ cnt'[d].wadd = cnt[d].wadd + 1 /\ Len(traj_batch[r]) = WarmupSteps
                    \/ cnt'[d].add = cnt[d].add + 1 /\ Len(traj_batch[r]) = RolloutLength
                 /\ buffer_state'[r] = BufferAdd(buffer_state[r], traj_batch[r])
        /\ (cnt'[d].sample # cnt[d].sample \/ cnt'[d].update # cnt[d].update)
              => buffer_state'[r] = buffer_state[r]

\* C10 (buffer frame)
BufferFrame == [](BufferAdds) /\ [][BufferStep]_vars

\* an update step has run all its epochs
BufferFrameWitness ==
    \E d \in Devices : pc[d] = "step_end" /\ cnt[d].sample >= Epochs /\ cnt[d].add >= 1

\* ---- the critic targets (C5, C6), stated on the window, index 0 first
WinLen == Len(loss_in.sequence)
\* g[k]: 0 if done[k] else gamma
GAt(w, k) == IF w[k + 1].done THEN RInt(0) ELSE Rat(GammaNum, GammaDen)
\* the product of g[t + j] over j < i
RECURSIVE GProd(_, _, _)
GProd(w, t, i) == IF i = 0 THEN RInt(1) ELSE RMul(GProd(w, t, i - 1), GAt(w, t + i - 1))
\* the sum over i < m of (product over j < i of g[t + j]) * reward[t + i]
RECURSIVE RewardSum(_, _, _)
RewardSum(w, t, m) ==
    IF m = 0 THEN RInt(0)
    ELSE RAdd(RewardSum(w, t, m - 1),
              RMul(GProd(w, t, m - 1), RInt(w[t + m].reward)))
NStepTarget(w, t, n) ==
    RAdd(RewardSum(w, t, n), RMul(GProd(w, t, n), RInt(w[t + n + 1].search_value)))

\* rewards all 1, no done, search values all 5, four timesteps
ExampleWindow == [t \in 1..4 |-> AZTransition(FALSE, 0, 0, 1, 5, 0, 0, 0)]

\* C5 (n-step target): the critic loss produces exactly T - 1 targets, and for
\* every t with t + n <= T - 1 the target at t is the n discounted rewards
\* from t plus the discounted search value at t + n; on the example window
\* with gamma 0.9 and n = 2 the first target is 5.95.
NStepTargets ==
    loss_pc = "critic_done"
        => /\ Len(loss_out.n_step_returns) = WinLen - 1
           /\ Len(loss_out.pred_value) = WinLen - 1
           /\ \A t \in 0..(WinLen - 2) :
                 t + loss_in.n_steps <= WinLen - 1
                     => loss_out.n_step_returns[t + 1]
                            = NStepTarget(loss_in.sequence, t, loss_in.n_steps)
           /\ (loss_in.sequence = ExampleWindow /\ loss_in.n_steps = 2
                  /\ GammaNum = 9 /\ GammaDen = 10)
                 => loss_out.n_step_returns[1] = Rat(595, 100)

\* the critic loss has run on the example window with n = 2
NStepTargetsWitness ==
    /\ loss_pc = "critic_done"
    /\ loss_in.sequence = ExampleWindow
    /\ loss_in.n_steps = 2
    /\ loss_out.n_step_returns[1] = Rat(595, 100)

\* the window with the reward, or the search value, at index m changed to the
\* other value of its range; any two windows that differ only at indices > k
\* are joined by a chain of such single changes
WithRewardValue(w, m, field) ==
    IF field = "reward"
    THEN [w EXCEPT ![m + 1] = [@ EXCEPT !.reward = 1 - @]]
    ELSE [w EXCEPT ![m + 1] = [@ EXCEPT !.search_value = 5 - @]]
TargetsOf(w) ==
    critic_loss_fn(loss_in.params["critic_params"],
                   loss_in.params["representation_params"],
                   w, loss_in.n_steps).n_step_returns

\* C6 (no value leakage): if done[k], every target at an index s <= k is
\* unchanged by any change of a reward or a search value at an index > k, and
\* when the n-step horizon of s crosses the boundary (s <= k < s + n, with
\* indices after k in the window) the target is the discounted reward sum
\* from s to k, with nothing bootstrapped from beyond it.
NoValueLeakage ==
    loss_pc = "critic_done"
        => LET w == loss_in.sequence
               T == Len(w)
               n == loss_in.n_steps
           IN  /\ \A m \in 1..(T - 1), field \in {"reward", "search_value"} :
                     \A k \in 0..(m - 1) :
                         w[k + 1].done
                             => SubSeq(TargetsOf(WithRewardValue(w, m, field)),
                                       1, Min(k, T - 2) + 1)
                                    = SubSeq(loss_out.n_step_returns,
                                             1, Min(k, T - 2) + 1)
               /\ \A k \in 0..(T - 2) :
                     w[k + 1].done
                         => \A s \in 0..k :
                                k < s + n
                                    => loss_out.n_step_returns[s + 1]
                                           = RewardSum(w, s, k - s + 1)

\* an episode ends at index 1 of a four-step window whose later rewards and
\* search values are not zero, and the horizon n = 2 of index 0 reaches past it
NoValueLeakageWitness ==
    /\ loss_pc = "critic_done"
    /\ WinLen = 4
    /\ loss_in.n_steps = 2
    /\ loss_in.sequence[2].done
    /\ ~loss_in.sequence[1].done
    /\ loss_in.sequence[3].reward = 1
    /\ loss_in.sequence[3].search_value = 5
    /\ loss_in.sequence[4].search_value = 5

\* ---- the world-model unroll (C7)
PredictedOf(w) ==
    world_model_loss_fn(Restrict(loss_in.params, WorldModelNames), w).predicted_rewards

\* C7 (the unroll never re-consults observations): there is one predicted
\* reward per window index; none of them changes when an observation at an
\* index >= 1 or any recorded reward changes, and the one at index t does not
\* change when an action at an index > t changes.  One field of one index is
\* changed at a time: windows that agree on observation 0 and on the actions
\* are joined by a chain of such changes.
UnrollReadsFirstObservationOnly ==
    loss_pc = "world_model_done"
        => LET w == loss_in.sequence
               T == Len(w)
               pr == loss_out.predicted_rewards
           IN  /\ Len(pr) = T
               /\ \A m \in 1..(T - 1) :
                     PredictedOf([w EXCEPT ![m + 1] = [@ EXCEPT !.obs = 1 - @]]) = pr
               /\ \A m \in 0..(T - 1) :
                     PredictedOf([w EXCEPT ![m + 1] = [@ EXCEPT !.reward = 1 - @]]) = pr
               /\ \A m \in 1..(T - 1) :
                     SubSeq(PredictedOf([w EXCEPT ![m + 1] =
                                [@ EXCEPT !.action = (@ + 1) % NumActions]]), 1, m)
                         = SubSeq(pr, 1, m)

\* the loss has run on a four-step window whose later observations differ
\* from the first
UnrollReadsFirstObservationOnlyWitness ==
    /\ loss_pc = "world_model_done"
    /\ WinLen = 4
    /\ loss_in.sequence[1].obs = 0
    /\ loss_in.sequence[2].obs = 1
    /\ loss_in.sequence[4].obs = 1
    /\ loss_in.sequence[2].action # loss_in.sequence[3].action

\* ---- the buffer's fill level (C11)
\* the slots of a buffer that an add has written
Written(buf) == Cardinality({i \in 1..BufferSize : buf.experience[i] # dummy_transition})
NoDummy(w) == \A i \in DOMAIN w : w[i] # dummy_transition

\* C11 (no buffer underflow): if warmup_steps >= sample_sequence_length, then
\* warmup runs once, before any rollout or sample, and leaves warmup_steps
\* written timesteps in every row; from then on every row holds at least
\* sample_sequence_length written timesteps, and every window a sample call
\* returns has sample_sequence_length transitions, none of them the dummy
\* transition the buffer was initialised with.
NoBufferUnderflow ==
    WarmupSteps >= SampleSequenceLength
        => \A d \in Devices : \A r \in ReplicasOf(d) :
              /\ pc[d] = "warmup"
                    => /\ cnt[d].wadd = 0 /\ cnt[d].env = 0 /\ cnt[d].sample = 0
                       /\ eval_step = 0
                       /\ Written(buffer_state[r]) = 0
              /\ pc[d] # "warmup"
                    => /\ cnt[d].wadd = 1
                       /\ cnt[d].wenv = WarmupSteps
                       /\ Written(buffer_state[r]) >= SampleSequenceLength
              /\ (pc[d] # "warmup" /\ cnt[d].add = 0)
                    => Written(buffer_state[r]) = Min(WarmupSteps, BufferSize)
              /\ pc[d] = "sample"
                    => /\ Len(SampleOut(r).sequence) = SampleSequenceLength
                       /\ NoDummy(SampleOut(r).sequence)
              /\ pc[d] \in {"grad", "pmean", "update"}
                    => /\ Len(sequence[r]) = SampleSequenceLength
                       /\ NoDummy(sequence[r])

\* the first sample of a replica has been drawn while its buffer still has
\* slots that no add has written
NoBufferUnderflowWitness ==
    \E d \in Devices : \E r \in ReplicasOf(d) :
        /\ pc[d] = "grad"
        /\ cnt[d].sample = 1
        /\ Written(buffer_state[r]) < BufferSize
        /\ Len(sequence[r]) = SampleSequenceLength

\* ---- the reduction is a mean (C13)
ReplicaAt(i) == << ((i - 1) \div UpdateBatchSize) + 1, ((i - 1) % UpdateBatchSize) + 1 >>
\* the sum, over all replicas, of the local gradients of the running epoch
LocalSum(loss, k) ==
    RSum([i \in 1..(NDevices * UpdateBatchSize) |->
             ValueAndGrad(loss, sequence[ReplicaAt(i)]).g[k].val],
         NDevices * UpdateBatchSize)

\* C13 (a mean, not a sum): when every device is about to update, the
\* gradient each replica holds, times update_batch_size * n_devices, is the
\* sum of all replicas' local gradients; and a batch reduction followed by a
\* device reduction over groups of one replica (one device, update_batch_size
\* 1) returns the local gradient and loss diagnostics unchanged.
MeanNotSum ==
    /\ (\A d \in Devices : pc[d] = "update")
          => \A r \in Replicas, loss \in Losses :
                \A k \in DOMAIN grads[r][loss].g :
                    RMul(RInt(NDevices * UpdateBatchSize), grads[r][loss].g[k].val)
                        = LocalSum(loss, k)
    /\ \A r \in Replicas, loss \in Losses :
          grads[r][loss].stage = "local"
              => LET G == [q \in Replicas |-> grads[q][loss]]
                     one == PMeanOver(G, << r >>, "batch", r)
                     two == PMeanOver([q \in Replicas |-> one], << r >>, "device", r)
                 IN  /\ two.g = grads[r][loss].g
                     /\ two.info = grads[r][loss].info

\* every device is about to update and the sum of the local actor gradients
\* is not their mean
MeanNotSumWitness ==
    /\ \A d \in Devices : pc[d] = "update"
    /\ LocalSum("actor", "actor_params") # grads[R11]["actor"].g["actor_params"].val
    /\ Digest(sequence[R11]) # Digest(sequence[<<1, UpdateBatchSize>>])

\* ---- trajectory continuity (C16)
EnvSteps(c) == c.wenv + c.env
Adds(c) == c.wadd + c.add

\* C16 (trajectory continuity), the state part: a row's environment has been
\* stepped exactly once per recorded transition, and the running scan holds
\* one transition per iteration done.
TrajectoryState ==
    \A d \in Devices : \A r \in ReplicasOf(d) :
        /\ env_state[r].t = EnvSteps(cnt[d])
        /\ Len(traj_batch[r]) = IF pc[d] \in {"warmup", "collect"} THEN step_i[d] ELSE 0

\* the step part: an environment step appends one transition holding the
\* observation of the timestep the previous step (or the reset) returned, the
\* action the search chose from the root built on it, and the reward and done
\* of the timestep that stepping with that action returned, which becomes the
\* last timestep; nothing else changes a row's environment state or last
\* timestep (not the end of warmup, not an update, not the return of learn);
\* an add writes the scan's transitions into the buffer in order.
TrajectoryStep ==
    \A d \in Devices : \A r \in ReplicasOf(d) :
        /\ EnvSteps(cnt'[d]) # EnvSteps(cnt[d])
              => LET tr == traj_batch'[r][Len(traj_batch'[r])]
                     acting == IF pc[d] = "warmup" THEN warmup_params ELSE params[r]
                     k == IF pc[d] = "warmup" THEN warmup_key[r] ELSE key[r]
                     root == root_fn(acting, last_timestep[r].observation)
                     a == search_apply_fn(acting, Split(k, 2)[2], root, salt).action
                     out == EnvStep(env_state[r], a)
                 IN  /\ EnvSteps(cnt'[d]) = EnvSteps(cnt[d]) + 1
                     /\ traj_batch'[r] = Append(traj_batch[r], tr)
                     /\ tr.obs = last_timestep[r].observation
                     /\ tr.action = a
                     /\ tr.reward = out.timestep.reward
                     /\ tr.done = out.timestep.last
                     /\ env_state'[r] = out.state
                     /\ last_timestep'[r] = out.timestep
        /\ EnvSteps(cnt'[d]) = EnvSteps(cnt[d])
              => /\ env_state'[r] = env_state[r]
                 /\ last_timestep'[r] = last_timestep[r]
        /\ Adds(cnt'[d]) # Adds(cnt[d])
              => /\ Len(traj_batch[r]) = IF pc[d] = "warmup" THEN WarmupSteps ELSE RolloutLength
                 /\ \A i \in 1..Len(traj_batch[r]) :
                       buffer_state'[r].experience[
                           ((buffer_state[r].current_index + i - 1) % BufferSize) + 1]
                           = traj_batch[r][i]
        /\ (EnvSteps(cnt'[d]) = EnvSteps(cnt[d]) /\ Adds(cnt'[d]) = Adds(cnt[d]))
              => traj_batch'[r] = traj_batch[r]

\* C16 (trajectory continuity)
TrajectoryContinuity == [](TrajectoryState) /\ [][TrajectoryStep]_vars

\* a row is inside a rollout of the second learn call, past an episode end
TrajectoryContinuityWitness ==
    \E d \in Devices : \E r \in ReplicasOf(d) :
        /\ eval_step >= 1
        /\ pc[d] = "collect"
        /\ Len(traj_batch[r]) >= 1
        /\ env_state[r].t > EpisodeLen
        /\ traj_batch[r][1].obs = last_timestep[r].observation

\* ---- the boundary of the n-step target (C14)
\* the target of the largest partial horizon at t: the discounted rewards at
\* t..T-2 and the last search value of the window, discounted by g[t..T-2]
PartialTarget(w, t) ==
    LET m == Len(w) - 1 - t
    IN  RAdd(RewardSum(w, t, m), RMul(GProd(w, t, m), RInt(w[Len(w)].search_value)))

\* C14 (boundary policy): for every target index t < T - 1 with t + n > T - 1
\* the target is the partial-horizon target at t; the critic loss is defined
\* on every window (no index outside 0..T-1 is read), and no target depends
\* on the reward or the done flag at index T - 1.
BoundaryPolicy ==
    loss_pc = "critic_done"
        => LET w == loss_in.sequence
               T == Len(w)
               n == loss_in.n_steps
               flipped == [w EXCEPT ![T] = [@ EXCEPT !.reward = 1 - @, !.done = ~@]]
           IN  /\ \A t \in 0..(T - 2) :
                     t + n > T - 1
                         => loss_out.n_step_returns[t + 1] = PartialTarget(w, t)
               /\ TargetsOf(flipped) = loss_out.n_step_returns

\* the critic loss has run with n = 2 on a window of three timesteps whose
\* index 1 lies one step before the end, with a reward and a bootstrap value
\* that are not zero
BoundaryPolicyWitness ==
    /\ loss_pc = "critic_done"
    /\ WinLen = 3
    /\ loss_in.n_steps = 2
    /\ ~loss_in.sequence[1].done /\ ~loss_in.sequence[2].done
    /\ loss_in.sequence[2].reward = 1
    /\ loss_in.sequence[3].search_value = 5
    /\ loss_out.n_step_returns[2] = Rat(55, 10)
    /\ loss_out.n_step_returns[1] = PartialTarget(loss_in.sequence, 0)

\* ---- configuration validation (C12, C15)
StatefulResources == {"env", "params", "opt_states", "buffer"}

\* C12 (unsupported search method): a search method other than "muzero" or
\* "gumbel" (in any case) ends the run with a ValueError, a supported one
\* never does, and when the ValueError is raised none of the environment, the
\* network parameters, the optimizer states and the replay buffer has been
\* constructed.
UnsupportedSearchFatalEarly ==
    /\ raised = "ValueError"
          => /\ Lower(config.search_method) \notin {"muzero", "gumbel"}
             /\ built \cap StatefulResources = {}
    /\ (Lower(config.search_method) \in {"muzero", "gumbel"}) => raised # "ValueError"

\* C15 (evaluation-count validation): the assertion is raised before any
\* resource is built, it is raised whenever num_evaluation > num_updates, and
\* it is not raised when num_evaluation <= num_updates.
EvalCountValidation ==
    /\ raised = "AssertionError" => built = {}
    /\ (run_pc # "validate" /\ config.num_evaluation > config.num_updates)
          => raised = "AssertionError"
    /\ config.num_evaluation <= config.num_updates => raised # "AssertionError"

\* ---- warmup's parameters (C17)
\* C17 (warmup acts with the learner's initial parameters): once learner_setup
\* has returned, the params warmup planned with when it filled the buffer are
\* the params of the initial learner state.
WarmupUsesInitialParams ==
    (run_pc = "loop" /\ run_eval_step = 0) => buffer_writer_params = learner_params

\* ---- best-parameter tracking (C18)
RECURSIVE MaxOfReturns(_)
MaxOfReturns(rs) ==
    IF rs = << >> THEN InitMaxEpisodeReturn
    ELSE LET m == MaxOfReturns(Tail(rs))
         IN  IF Head(rs) > m THEN Head(rs) ELSE m
\* the intervals whose return attained the maximum
Attained == {i \in 1..Len(returns) : returns[i] = MaxOfReturns(returns)}
Latest(S) == CHOOSE i \in S : \A j \in S : j <= i

\* C18 (best-parameter tracking): with absolute_metric set, after every
\* interval max_episode_return is the maximum of the initial value and the
\* returns seen, best_params are the trained params of the latest interval
\* that attained it (the initial params if none did), and the absolute-metric
\* evaluation runs on these; with absolute_metric unset best_params stay the
\* initial params and no absolute-metric evaluation runs.
BestParamsTracking ==
    run_pc \in {"loop", "done"}
        => /\ Len(returns) = run_eval_step
           /\ config.absolute_metric
                 => /\ max_episode_return = MaxOfReturns(returns)
                    /\ best_params = IF Attained = {} THEN setup_params
                                     ELSE TrainedParams(Latest(Attained))
                    /\ (Attained = {} <=> \A i \in 1..Len(returns) :
                                              returns[i] < InitMaxEpisodeReturn)
                    /\ run_pc = "done" => abs_params = best_params
           /\ ~config.absolute_metric
                 => /\ best_params = setup_params
                    /\ abs_params = NoParams

\* the run has ended after two intervals with equal returns, the best seen
BestParamsTrackingWitness ==
    /\ run_pc = "done"
    /\ config.absolute_metric
    /\ Len(returns) = 2
    /\ returns[1] = returns[2]
    /\ returns[1] > InitMaxEpisodeReturn
    /\ best_params = TrainedParams(2)
    /\ abs_params = TrainedParams(2)

====
